---- MODULE Spec2Model ----
(***************************************************************************)
(* A model of the MuseTalk avatar pipeline of OpenAvatarChat               *)
(* (src/handlers/avatar/musetalk/avatar_musetalk_algo.py, MuseAvatarV15):  *)
(* the cyclic asset bundle built by prepare_material, the per-call         *)
(* streaming API (generate_frames, res2combined) and the batch pipeline    *)
(* (inference as producer, process_frames as consumer thread).             *)
(*                                                                         *)
(* Images are not modelled pixel by pixel.  A source frame is its position *)
(* in the clip; a reconstructed patch records the chunk and the latent it  *)
(* was produced from, plus the class of its pixel content: "img" (a usable *)
(* reconstruction), "zero" (all pixels zero) or "bad" (malformed: resizing *)
(* it raises).  The external models (UNet, VAE, cv2, blending) are opaque: *)
(* their results are records of their arguments.                           *)
(***************************************************************************)
EXTENDS Integers, Sequences, FiniteSets, TLC

\* ------------------------------------------------------------------ bounds
MaxSrcFrames == 2
MaxV == 3
MaxBatch == 2
MaxIdx == 5
MaxUnetCalls == 2
MaxInits == 3
\* inference() calls on one avatar, one after the other
MaxCalls == 2
\* inputs handed to handle() in one LLM session
MaxHandles == 3
\* lines in one response stream
MaxLines == 2
\* the height (rows) of every source frame of the modelled clip
FrameHeight == 4

\* --------------------------------------------------------------- constants
\* extra_margin, the default of the constructor (v15 chin margin)
ExtraMargin == 10

VARIABLES
    \* the asset bundle (the five *_cycle lists of the avatar object)
    bundle,
    \* self.batch_size
    batch_size,
    \* inference(): where the main thread is, and its arguments
    mainpc, args,
    \* inference(): whisper_chunks, the chunks not yet generated (position of
    \* datagen), and the patches of the current batch not yet put on the queue
    whisper_chunks, next_chunk, recon,
    \* res_frame_queue
    res_frame_queue,
    \* self.idx
    idx,
    \* process_frames(): the consumer thread
    conspc,
    \* every frame process_frames composited, in order (each with the index
    \* it was composited at), and the content of the tmp directory
    emitted, tmp_dir,
    \* process_frames(): the parity of the number of queue.Empty timeouts the
    \* consumer has run into (a timeout changes nothing else)
    timeouts,
    \* the streaming API: the last call with its result, and how often the
    \* reconstruction model (self.unet.model) has been invoked
    api, unet_calls,
    \* the avatar's directory on disk (avatar_path): whether it exists, the
    \* state of each required file, which init() run wrote it, the content of
    \* avator_info.json and of the five data files, and the runs whose images
    \* lie in full_imgs
    disk,
    \* the running (or last) call of __init__/init(), and the one before it
    run, prev,
    \* the consumer threads of earlier inference() calls that are still alive
    \* (each with its own queue, video_len and skip_save_images), and the
    \* number of inference() calls that have returned or raised
    earlier, returned,
    \* the LLM handler: the session's LLMContext with the handle() call in
    \* progress, and what the session has sent and yielded so far
    llm,
    \* RTCProvider: the last pair of prepare_rtc_configuration() calls
    rtc

prepvars == <<disk, run, prev>>

sessvars == <<earlier, returned>>

extvars == <<sessvars, llm, rtc>>

vars == <<extvars, prepvars, bundle, batch_size, mainpc, args, whisper_chunks, next_chunk, recon,
          res_frame_queue, idx, conspc, emitted, tmp_dir, timeouts, api,
          unet_calls>>

pipevars == <<mainpc, args, whisper_chunks, next_chunk, recon,
              res_frame_queue, idx, conspc, emitted, tmp_dir, timeouts>>

apivars == <<api, unet_calls>>

\* ----------------------------------------------------------------- helpers
Reverse(s) == [i \in 1..Len(s) |-> s[Len(s) + 1 - i]]

Min(a, b) == IF a <= b THEN a ELSE b

SeqsUpTo(S, n) == UNION {[1..k -> S] : k \in 0..n}

\* an index beyond the list goes to its last position
PhysicalIndex_Clamp(i, n) == Min(i, n - 1)

\* idx % len(lst): the physical index of logical index i in a list of n
PhysicalIndex(i, n) == i % n

\* Python's lst[i % len(lst)] on a 0-based list
At(lst, i) == lst[PhysicalIndex(i, Len(lst)) + 1]

\* ------------------------------------------------------- asset bundle
coord_placeholder == <<0, 0, 0, 0>>

ValidBox == <<1, 1, 3, 2>>

\* what face detection can give for one frame
DetBoxes == {coord_placeholder, ValidBox}

\* vae.get_latents_for_unet(crop of frame at bbox)
Latent(frame, bbox) == [frame |-> frame, box |-> bbox]

\* get_image_prepare_material(frame, bbox): (mask, crop_box)
Mask(frame, bbox) == [frame |-> frame, box |-> bbox]

CropBox(bbox) == [of |-> bbox]

\* the v15 chin margin, clipped to the frame
WithMargin(bbox) ==
    <<bbox[1], bbox[2], bbox[3], Min(bbox[4] + ExtraMargin, FrameHeight)>>

\* coord_list after the latent loop: valid boxes get the margin
MarginCoords(coord_list) ==
    [i \in 1..Len(coord_list) |->
        IF coord_list[i] = coord_placeholder THEN coord_list[i]
        ELSE WithMargin(coord_list[i])]

\* input_latent_list: one latent per frame with a valid box, in order
RECURSIVE LatentList(_, _)
LatentList(coord_list, frame_list) ==
    IF coord_list = <<>> \/ frame_list = <<>> THEN <<>>
    ELSE LET rest == LatentList(Tail(coord_list), Tail(frame_list))
         IN IF Head(coord_list) = coord_placeholder THEN rest
            ELSE <<Latent(Head(frame_list), WithMargin(Head(coord_list)))>> \o rest

\* the list twice in the same order
Cycle_Repeat(lst) == lst \o lst

\* the ping-pong cycle: lst + lst[::-1]
Cycle(lst) == lst \o Reverse(lst)

prepare_material(coord_list, frame_list) ==
    LET coords  == MarginCoords(coord_list)
        frames  == Cycle(frame_list)
        ccycle  == Cycle(coords)
    IN [frame_list_cycle        |-> frames,
        coord_list_cycle        |-> ccycle,
        input_latent_list_cycle |-> Cycle(LatentList(coord_list, frame_list)),
        mask_list_cycle         |-> [i \in 1..Len(frames) |-> Mask(frames[i], ccycle[i])],
        mask_coords_list_cycle  |-> [i \in 1..Len(frames) |-> CropBox(ccycle[i])]]

\* the detections of a clip of n frames with at least one usable face
Detections(n) ==
    {c \in [1..n -> DetBoxes] : \E i \in 1..n : c[i] # coord_placeholder}

\* the frames of a clip of n frames: frame k is the k-th source image
SourceFrames(n) == [i \in 1..n |-> i]

Bundles ==
    UNION {{prepare_material(c, SourceFrames(n)) : c \in Detections(n)} :
              n \in 1..MaxSrcFrames}

\* --------------------------------------------------- patches and images
\* the pixel content of a reconstruction: usable, all zero, or malformed
Kinds == {"img", "zero", "bad"}

\* recon[i] of vae.decode_latents(unet.model(latent, chunk)): the patch made
\* from this chunk and this latent; its pixel class is the models' choice
Patch(chunk, latent, kind) == [chunk |-> chunk, latent |-> latent, kind |-> kind]

NoLatent == Latent(0, coord_placeholder)

NoPatch == Patch(0, NoLatent, "none")

\* cv2.resize(res_frame.astype(np.uint8), (w, h)) raises
ResizeRaises(res_frame, w, h) == res_frame.kind = "bad" \/ w <= 0 \/ h <= 0

\* cv2.resize(res_frame.astype(np.uint8), (w, h))
Resize(res_frame, w, h) == [patch |-> res_frame, w |-> w, h |-> h]

NoRes == Resize(NoPatch, 0, 0)

\* np.all(res_frame == 0) on a resized patch
AllZero(resized) == resized.patch.kind = "zero"

\* a full frame handed on: the untouched original ...
Original(ori_frame) ==
    [frame |-> ori_frame, blended |-> FALSE, res |-> NoRes,
     bbox |-> coord_placeholder, mask |-> Mask(0, coord_placeholder),
     crop |-> CropBox(coord_placeholder)]

\* ... or get_image_blending(ori_frame, res_frame, bbox, mask, mask_crop_box)
get_image_blending(ori_frame, res_frame, bbox, mask, mask_crop_box) ==
    [frame |-> ori_frame, blended |-> TRUE, res |-> res_frame,
     bbox |-> bbox, mask |-> mask, crop |-> mask_crop_box]

BoxW(bbox) == bbox[3] - bbox[1]

BoxH(bbox) == bbox[4] - bbox[2]

\* ------------------------------------------------------------ compositor
\* The arrays of frame_list_cycle are slots 1..N; slot 0 is an array that
\* is not in the cache.
Fresh == 0

\* the array itself is handed on instead of a copy
deepcopy_Alias(slot) == slot

\* copy.deepcopy(frame): a new array with the same content
deepcopy(slot) == Fresh

\* res2combined, process_frames: the array that ori_frame names
OriFrameSlot(i) ==
    deepcopy(PhysicalIndex(i, Len(bundle.frame_list_cycle)) + 1)

\* the content of a frame after its array was written in place
Overwritten(f) == IF f > 0 THEN 0 - f ELSE f

\* the lists after the array at this slot was written in place (by
\* get_image_blending, which works on its first argument, or by a caller)
WriteInPlace(b, slot) ==
    IF slot = Fresh THEN b
    ELSE [b EXCEPT !.frame_list_cycle[slot] = Overwritten(@)]

\* res2combined without the all-zero protection (as process_frames blends)
res2combined_NoZeroGuard(res_frame, i) ==
    LET bbox      == At(bundle.coord_list_cycle, i)
        ori_frame == At(bundle.frame_list_cycle, i)
    IN IF ResizeRaises(res_frame, BoxW(bbox), BoxH(bbox))
       THEN [raised |-> FALSE, image |-> Original(ori_frame)]
       ELSE [raised |-> FALSE,
             image  |-> get_image_blending(ori_frame,
                            Resize(res_frame, BoxW(bbox), BoxH(bbox)), bbox,
                            At(bundle.mask_list_cycle, i),
                            At(bundle.mask_coords_list_cycle, i))]

\* res2combined without the try/except around the resize
res2combined_Propagates(res_frame, i) ==
    LET bbox      == At(bundle.coord_list_cycle, i)
        ori_frame == At(bundle.frame_list_cycle, i)
    IN IF ResizeRaises(res_frame, BoxW(bbox), BoxH(bbox))
       THEN [raised |-> TRUE, image |-> Original(0)]
       ELSE LET resized == Resize(res_frame, BoxW(bbox), BoxH(bbox))
            IN IF AllZero(resized)
               THEN [raised |-> FALSE, image |-> Original(ori_frame)]
               ELSE [raised |-> FALSE,
                     image  |-> get_image_blending(ori_frame, resized, bbox,
                                    At(bundle.mask_list_cycle, i),
                                    At(bundle.mask_coords_list_cycle, i))]

\* res2combined(res_frame, idx): the frame handed back, and whether an
\* exception left the function
res2combined(res_frame, i) ==
    LET bbox      == At(bundle.coord_list_cycle, i)
        ori_frame == At(bundle.frame_list_cycle, i)
    IN IF ResizeRaises(res_frame, BoxW(bbox), BoxH(bbox))
       THEN [raised |-> FALSE, image |-> Original(ori_frame)]
       ELSE LET resized == Resize(res_frame, BoxW(bbox), BoxH(bbox))
            IN IF AllZero(resized)
               THEN [raised |-> FALSE, image |-> Original(ori_frame)]
               ELSE [raised |-> FALSE,
                     image  |-> get_image_blending(ori_frame, resized, bbox,
                                    At(bundle.mask_list_cycle, i),
                                    At(bundle.mask_coords_list_cycle, i))]

\* ------------------------------------------------------------ generation
\* whisper_chunks after the ndim test: a 2-D tensor is one chunk, unsqueezed
\* to a batch of one; B is shape[0]
Unsqueeze(w) == w.data

\* idx_list with every element tagged start_idx
IdxList_Const(start_idx, bsz) == [k \in 1..bsz |-> start_idx]

\* idx_list = [start_idx + i for i in range(batch_size)]
IdxList(start_idx, bsz) == [k \in 1..bsz |-> start_idx + k - 1]

\* generate_frames without the assert: the result is cut to the shorter of
\* the two sizes
generate_frames_NoAssert(w, start_idx, bsz, kinds) ==
    LET chunks == Unsqueeze(w)
        B      == Min(Len(chunks), bsz)
    IN [raised |-> FALSE, unet |-> 1,
        ret |-> [k \in 1..B |->
                    <<Patch(chunks[k],
                            At(bundle.input_latent_list_cycle, start_idx + k - 1),
                            kinds[k]),
                      start_idx + k - 1>>]]

\* generate_frames invoking the model once for every frame of the batch
generate_frames_PerFrame(w, start_idx, bsz, kinds) ==
    LET chunks == Unsqueeze(w)
        B      == Len(chunks)
    IN IF B # bsz
       THEN [raised |-> TRUE, unet |-> 0, ret |-> <<>>]
       ELSE [raised |-> FALSE, unet |-> B,
             ret |-> [k \in 1..B |->
                        <<Patch(chunks[k],
                                At(bundle.input_latent_list_cycle,
                                   start_idx + k - 1),
                                kinds[k]),
                          start_idx + k - 1>>]]

\* generate_frames(whisper_chunks, start_idx, batch_size); kinds is what the
\* decoder gives for each element of the batch.  unet is the number of
\* invocations of self.unet.model by the call.
generate_frames(w, start_idx, bsz, kinds) ==
    LET chunks == Unsqueeze(w)
        B      == Len(chunks)
    IN IF B # bsz
       THEN [raised |-> TRUE, unet |-> 0, ret |-> <<>>]
       ELSE LET idx_list == IdxList(start_idx, bsz)
                latents  == [k \in 1..bsz |->
                                At(bundle.input_latent_list_cycle, idx_list[k])]
            IN [raised |-> FALSE, unet |-> 1,
                ret |-> [k \in 1..B |->
                            <<Patch(chunks[k], latents[k], kinds[k]), idx_list[k]>>]]

\* generate_frame always taking the first latent
generate_frame_FirstLatent(w, i, kind) ==
    LET chunks    == Unsqueeze(w)
        latent    == bundle.input_latent_list_cycle[1]
        res_frame == Patch(chunks[1], latent, kind)
        r         == res2combined(res_frame, i)
    IN [raised |-> r.raised, unet |-> 1, res_frame |-> res_frame,
        image |-> r.image]

\* generate_frame(whisper_chunk, idx) for one chunk: the latent at idx, one
\* invocation of the models, recon[0] composited at idx.  kind is what the
\* decoder gives.
generate_frame(w, i, kind) ==
    LET chunks    == Unsqueeze(w)
        latent    == At(bundle.input_latent_list_cycle, i)
        res_frame == Patch(chunks[1], latent, kind)
        r         == res2combined(res_frame, i)
    IN [raised |-> r.raised, unet |-> 1, res_frame |-> res_frame,
        image |-> r.image]

\* generate_idle_frame reading one position too far
generate_idle_frame_OffByOne(i) ==
    [frame |-> At(bundle.frame_list_cycle, i + 1), unet |-> 0,
     slot |-> PhysicalIndex(i + 1, Len(bundle.frame_list_cycle)) + 1]

\* generate_idle_frame(idx): the cached frame, with no model invoked; what
\* is returned is the cached array itself (its slot)
generate_idle_frame(i) ==
    [frame |-> At(bundle.frame_list_cycle, i), unet |-> 0,
     slot |-> PhysicalIndex(i, Len(bundle.frame_list_cycle)) + 1]

\* ------------------------------------------------- the bundle on disk
\* required_files of init(): latents.pt, coords.pkl, mask_coords.pkl,
\* avator_info.json, frames.pkl, masks.pkl
required_files == <<"latents", "coords", "mask_coords", "info", "frames", "masks">>

Artifacts == {required_files[k] : k \in 1..Len(required_files)}

\* the five lists before init() has filled them (None in the code)
NoBundle ==
    [frame_list_cycle |-> <<>>, coord_list_cycle |-> <<>>,
     input_latent_list_cycle |-> <<>>, mask_list_cycle |-> <<>>,
     mask_coords_list_cycle |-> <<>>]

\* the list each data file holds
FieldOf(a) ==
    CASE a = "latents"     -> "input_latent_list_cycle"
      [] a = "coords"      -> "coord_list_cycle"
      [] a = "mask_coords" -> "mask_coords_list_cycle"
      [] a = "frames"      -> "frame_list_cycle"
      [] a = "masks"       -> "mask_list_cycle"

VideoPaths == {"a.mp4", "b.mp4"}

BboxShifts == {0, 5}

\* self.avatar_info (avatar_id and version are the same in every run)
AvatarInfo(params) ==
    [video_path |-> params.video_path, bbox_shift |-> params.bbox_shift]

NoInfo == [video_path |-> "", bbox_shift |-> 0]

\* the state with no directory for the avatar
EmptyDisk ==
    [dir  |-> FALSE,
     st   |-> [a \in Artifacts |-> "absent"],
     by   |-> [a \in Artifacts |-> 0],
     info |-> NoInfo,
     data |-> NoBundle,
     imgs |-> {}]

\* os.path.exists(file_path)
Exists(d, a) == d.st[a] # "absent"

\* every required file is there and was written to its end
Complete(d) == d.dir /\ \A a \in Artifacts : d.st[a] = "complete"

\* init(): json.load of a file that was not written to its end raises
CheckRaises(params, d) ==
    /\ ~params.force_preparation
    /\ d.dir
    /\ d.st["info"] = "partial"

\* need_preparation, without the test of the stored bbox_shift
NeedPreparation_NoShiftCheck(params, d) ==
    IF ~params.force_preparation /\ d.dir
    THEN \E a \in Artifacts : ~Exists(d, a)
    ELSE TRUE

\* need_preparation, testing the first required file only
NeedPreparation_FirstFileOnly(params, d) ==
    IF ~params.force_preparation /\ d.dir
    THEN \/ ~Exists(d, required_files[1])
         \/ Exists(d, "info") /\ d.info.bbox_shift # params.bbox_shift
    ELSE TRUE

\* need_preparation, not starting from force_preparation
NeedPreparation_IgnoreForce(params, d) ==
    IF d.dir
    THEN \/ \E a \in Artifacts : ~Exists(d, a)
         \/ Exists(d, "info") /\ d.info.bbox_shift # params.bbox_shift
    ELSE TRUE

\* init(), step 1: need_preparation
NeedPreparation(params, d) ==
    IF ~params.force_preparation /\ d.dir
    THEN \/ \E a \in Artifacts : ~Exists(d, a)
         \/ Exists(d, "info") /\ d.info.bbox_shift # params.bbox_shift
    ELSE TRUE

\* prepare_material, in the order of the code: each file is opened for
\* writing (created, empty) and then written to its end
PrepSteps ==
    <<[kind |-> "open",  file |-> "info"],
      [kind |-> "write", file |-> "info"],
      [kind |-> "extract", file |-> "none"],
      [kind |-> "build", file |-> "none"],
      [kind |-> "masks", file |-> "none"],
      [kind |-> "open",  file |-> "mask_coords"],
      [kind |-> "write", file |-> "mask_coords"],
      [kind |-> "open",  file |-> "coords"],
      [kind |-> "write", file |-> "coords"],
      [kind |-> "open",  file |-> "latents"],
      [kind |-> "write", file |-> "latents"],
      [kind |-> "open",  file |-> "frames"],
      [kind |-> "write", file |-> "frames"],
      [kind |-> "open",  file |-> "masks"],
      [kind |-> "write", file |-> "masks"]>>

NoParams == [video_path |-> "", bbox_shift |-> 0, force_preparation |-> FALSE]

\* a call of init(): its number, the constructor's arguments and whether they
\* are those of the run before, where it stands, need_preparation, whether
\* it removed the directory, entered prepare_material, entered the loading
\* branch, and the number of frames it extracted
NoRun ==
    [n |-> 0, params |-> NoParams, again |-> FALSE, pc |-> "none",
     step |-> 0, need |-> FALSE, deleted |-> FALSE, prepared |-> FALSE,
     loaded |-> FALSE, frames |-> 0]

\* what is kept of the run before the current one: how it ended, which
\* branch it took and, if it loaded, the lists it loaded
Summary(r, b) ==
    [pc |-> r.pc, prepared |-> r.prepared, loaded |-> r.loaded,
     bundle |-> IF r.loaded THEN b ELSE NoBundle]

\* ------------------------------------------------------------- pipeline
\* process_frames: "if self.idx >= video_len - 1: break"
ExitReached(i, video_len) == i >= video_len - 1

\* the cursor is not advanced
NextIdx_Stuck(i) == i

\* process_frames: "self.idx = self.idx + 1"
NextIdx(i) == i + 1

\* datagen(whisper_chunks, input_latent_list_cycle, batch_size): the next
\* batch, chunk number k (0-based) paired with latent k mod len
DatagenBatch(chunks, latents, from, bsz) ==
    [k \in 1..Min(bsz, Len(chunks) - from) |->
        [chunk |-> chunks[from + k], latent |-> At(latents, from + k - 1)]]

NoCall == [op |-> "none"]

NoHandle == [pc |-> "none"]

NoRtc == [pc |-> "none"]

EmptyTmp == [exists |-> FALSE, files |-> {}]

\* nothing but the avatar has been used: no inference() call has returned,
\* the LLM session and the RTC provider have not been called
Offstage ==
    /\ earlier = <<>>
    /\ returned = 0
    /\ llm = NoHandle
    /\ rtc = NoRtc

Init ==
    /\ Offstage
    /\ disk = EmptyDisk
    /\ run = NoRun
    /\ prev = Summary(NoRun, NoBundle)
    /\ bundle \in Bundles
    /\ batch_size \in 1..MaxBatch
    /\ mainpc = "idle"
    /\ args = [skip_save_images |-> FALSE, out_vid_name |-> FALSE]
    /\ whisper_chunks = <<>>
    /\ next_chunk = 0
    /\ recon = <<>>
    /\ res_frame_queue = <<>>
    /\ idx = 0
    /\ conspc = "none"
    /\ emitted = <<>>
    /\ tmp_dir = EmptyTmp
    /\ timeouts = 0
    /\ api = NoCall
    /\ unet_calls = 0

\* inference(), up to process_thread.start(): the tmp directory is made, the
\* audio is chunked (V chunks), the queue is created, self.idx is reset and
\* the consumer thread is started
StartInference ==
    /\ mainpc = "idle"
    /\ api = NoCall
    /\ \E V \in 0..MaxV, skip \in BOOLEAN, out \in BOOLEAN :
        /\ args' = [skip_save_images |-> skip, out_vid_name |-> out]
        /\ whisper_chunks' = [k \in 1..V |-> k]
    /\ tmp_dir' = [exists |-> TRUE, files |-> tmp_dir.files]
    /\ next_chunk' = 0
    /\ recon' = <<>>
    /\ res_frame_queue' = <<>>
    /\ idx' = 0
    /\ conspc' = "running"
    /\ emitted' = <<>>
    /\ timeouts' = 0
    /\ mainpc' = "producing"
    /\ UNCHANGED <<extvars, prepvars, bundle, batch_size, api, unet_calls>>

\* inference(), one round of the generation loop up to decode_latents: one
\* invocation of the models on the next batch
ProducerBatch ==
    /\ mainpc = "producing"
    /\ recon = <<>>
    /\ next_chunk < Len(whisper_chunks)
    /\ LET batch == DatagenBatch(whisper_chunks, bundle.input_latent_list_cycle,
                                 next_chunk, batch_size)
       IN /\ \E kinds \in [1..Len(batch) -> Kinds] :
                recon' = [k \in 1..Len(batch) |->
                             Patch(batch[k].chunk, batch[k].latent, kinds[k])]
          /\ next_chunk' = next_chunk + Len(batch)
    /\ unet_calls' = unet_calls + 1
    /\ UNCHANGED <<extvars, prepvars, bundle, batch_size, mainpc, args, whisper_chunks,
                   res_frame_queue, idx, conspc, emitted, tmp_dir, api,
                   timeouts>>

\* inference(): self.pe, self.unet.model or vae.decode_latents raises on the
\* next batch; nothing in inference() catches it, so the exception leaves
\* inference() and reaches its caller
ProducerRaises ==
    /\ mainpc = "producing"
    /\ recon = <<>>
    /\ next_chunk < Len(whisper_chunks)
    /\ mainpc' = "failed"
    /\ UNCHANGED <<extvars, prepvars, bundle, batch_size, args, whisper_chunks, next_chunk,
                   recon, res_frame_queue, idx, conspc, emitted, tmp_dir, api,
                   unet_calls, timeouts>>

\* inference(): "for res_frame in recon: res_frame_queue.put(res_frame)"
ProducerPut ==
    /\ mainpc = "producing"
    /\ recon # <<>>
    /\ res_frame_queue' = Append(res_frame_queue, Head(recon))
    /\ recon' = Tail(recon)
    /\ UNCHANGED <<extvars, prepvars, bundle, batch_size, mainpc, args, whisper_chunks, next_chunk,
                   idx, conspc, emitted, tmp_dir, api, unet_calls,
                   timeouts>>

\* inference(): the generator is exhausted; the main thread enters
\* process_thread.join()
ProducerJoin ==
    /\ mainpc = "producing"
    /\ recon = <<>>
    /\ next_chunk = Len(whisper_chunks)
    /\ mainpc' = "joining"
    /\ UNCHANGED <<extvars, prepvars, bundle, batch_size, args, whisper_chunks, next_chunk, recon,
                   res_frame_queue, idx, conspc, emitted, tmp_dir, api, unet_calls,
                   timeouts>>

\* stage 3 without process_thread.join() before it
PostProcess_NoJoin ==
    /\ mainpc = "joining"
    /\ tmp_dir' = IF args.out_vid_name /\ ~args.skip_save_images
                  THEN EmptyTmp ELSE tmp_dir
    /\ mainpc' = "done"
    /\ UNCHANGED <<extvars, prepvars, bundle, batch_size, args, whisper_chunks, next_chunk, recon,
                   res_frame_queue, idx, conspc, emitted, api, unet_calls,
                   timeouts>>

\* inference(): join() returns and stage 3 runs: with an output name and
\* saved images the video is muxed and the tmp directory removed
PostProcess ==
    /\ mainpc = "joining"
    /\ conspc = "done"
    /\ tmp_dir' = IF args.out_vid_name /\ ~args.skip_save_images
                  THEN EmptyTmp ELSE tmp_dir
    /\ mainpc' = "done"
    /\ UNCHANGED <<extvars, prepvars, bundle, batch_size, args, whisper_chunks, next_chunk, recon,
                   res_frame_queue, idx, conspc, emitted, api, unet_calls,
                   timeouts>>

\* process_frames(): the loop ends
ConsumerBreak ==
    /\ conspc = "running"
    /\ ExitReached(idx, Len(whisper_chunks))
    /\ conspc' = "done"
    /\ UNCHANGED <<extvars, prepvars, bundle, batch_size, mainpc, args, whisper_chunks, next_chunk,
                   recon, res_frame_queue, idx, emitted, tmp_dir, api, unet_calls,
                   timeouts>>

\* process_frames(): get() times out on the empty queue (queue.Empty) and
\* the loop continues
ConsumerTimeout ==
    /\ conspc = "running"
    /\ ~ExitReached(idx, Len(whisper_chunks))
    /\ res_frame_queue = <<>>
    /\ timeouts' = (timeouts + 1) % 2
    /\ UNCHANGED <<extvars, prepvars, bundle, batch_size, mainpc, args, whisper_chunks, next_chunk,
                   recon, res_frame_queue, idx, conspc, emitted, tmp_dir, api,
                   unet_calls>>

\* process_frames(): one round of the loop that gets a patch
ConsumerFrame ==
    /\ conspc = "running"
    /\ ~ExitReached(idx, Len(whisper_chunks))
    /\ res_frame_queue # <<>>
    /\ res_frame_queue' = Tail(res_frame_queue)
    /\ LET res_frame == Head(res_frame_queue)
           bbox      == At(bundle.coord_list_cycle, idx)
           ori_frame == At(bundle.frame_list_cycle, idx)
       IN IF ResizeRaises(res_frame, BoxW(bbox), BoxH(bbox))
          THEN UNCHANGED <<bundle, idx, emitted, tmp_dir>>
          ELSE LET combine_frame ==
                       get_image_blending(ori_frame,
                           Resize(res_frame, BoxW(bbox), BoxH(bbox)), bbox,
                           At(bundle.mask_list_cycle, idx),
                           At(bundle.mask_coords_list_cycle, idx))
               IN /\ bundle' = WriteInPlace(bundle, OriFrameSlot(idx))
                  /\ emitted' = Append(emitted,
                                       [idx |-> idx, image |-> combine_frame])
                  /\ tmp_dir' = IF args.skip_save_images THEN tmp_dir
                                ELSE [tmp_dir EXCEPT !.files = @ \cup {idx}]
                  /\ idx' = NextIdx(idx)
    /\ UNCHANGED <<extvars, prepvars, batch_size, mainpc, args, whisper_chunks, next_chunk,
                   recon, conspc, api, unet_calls,
                   timeouts>>

Producer == StartInference \/ ProducerBatch \/ ProducerPut \/ ProducerJoin \/ PostProcess

Consumer == ConsumerBreak \/ ConsumerTimeout \/ ConsumerFrame

Next == Producer \/ Consumer \/ ProducerRaises

Spec == Init /\ [][Next]_vars

\* the two threads are scheduled fairly
FairSpec == Spec /\ WF_vars(Producer) /\ WF_vars(Consumer)

\* ------------------------------------------ sequential inference() calls
\* process_frames(res_frame_queue, video_len, skip_save_images) of an
\* inference() call that is over: the thread keeps its three arguments; pc
\* is "store" between the read and the write of "self.idx = self.idx + 1",
\* and at is the value it read
Thread(q, video_len, skip) ==
    [queue |-> q, video_len |-> video_len, skip_save_images |-> skip,
     pc |-> "poll", at |-> 0]

\* a sequence without its k-th element
Drop(s, k) == [j \in 1..(Len(s) - 1) |-> IF j < k THEN s[j] ELSE s[j + 1]]

\* inference() returns after stage 3, or the exception of the generation
\* loop reaches the caller, who has the avatar for the next utterance: the
\* locals of the call are gone, self.idx and the tmp directory stay, and a
\* consumer thread that has not ended stays alive with its own queue
ReturnToCaller ==
    /\ mainpc \in {"done", "failed"}
    /\ returned + 1 < MaxCalls
    /\ returned' = returned + 1
    /\ mainpc' = "idle"
    /\ earlier' = IF conspc = "running"
                  THEN Append(earlier, Thread(res_frame_queue, Len(whisper_chunks),
                                              args.skip_save_images))
                  ELSE earlier
    /\ conspc' = "none"
    /\ args' = [skip_save_images |-> FALSE, out_vid_name |-> FALSE]
    /\ whisper_chunks' = <<>>
    /\ next_chunk' = 0
    /\ recon' = <<>>
    /\ res_frame_queue' = <<>>
    /\ emitted' = <<>>
    /\ timeouts' = 0
    /\ UNCHANGED <<llm, rtc, prepvars, bundle, batch_size, idx, tmp_dir, api,
                   unet_calls>>

\* process_frames() of an earlier call: the loop ends
EarlierBreak(k) ==
    /\ earlier[k].pc = "poll"
    /\ ExitReached(idx, earlier[k].video_len)
    /\ earlier' = Drop(earlier, k)
    /\ UNCHANGED <<returned, llm, rtc, prepvars, bundle, batch_size, pipevars,
                   apivars>>

\* process_frames() of an earlier call: one round of the loop that gets a
\* patch from the thread's own queue, up to the read of self.idx in
\* "self.idx = self.idx + 1"; the frame goes to the file of the cursor in the
\* tmp directory (emitted keeps the frames of the current call's consumer)
EarlierFrame(k) ==
    /\ earlier[k].pc = "poll"
    /\ ~ExitReached(idx, earlier[k].video_len)
    /\ earlier[k].queue # <<>>
    /\ LET res_frame == Head(earlier[k].queue)
           bbox      == At(bundle.coord_list_cycle, idx)
       IN IF ResizeRaises(res_frame, BoxW(bbox), BoxH(bbox))
          THEN /\ earlier' = [earlier EXCEPT ![k].queue = Tail(@)]
               /\ UNCHANGED <<bundle, tmp_dir>>
          ELSE /\ bundle' = WriteInPlace(bundle, OriFrameSlot(idx))
               /\ tmp_dir' = IF earlier[k].skip_save_images THEN tmp_dir
                             ELSE [tmp_dir EXCEPT !.files = @ \cup {idx}]
               /\ earlier' = [earlier EXCEPT ![k].queue = Tail(@),
                                             ![k].pc = "store",
                                             ![k].at = idx]
    /\ UNCHANGED <<returned, llm, rtc, prepvars, batch_size, mainpc, args,
                   whisper_chunks, next_chunk, recon, res_frame_queue, idx,
                   conspc, emitted, timeouts, apivars>>

\* process_frames() of an earlier call: the write of
\* "self.idx = self.idx + 1"
EarlierStore(k) ==
    /\ earlier[k].pc = "store"
    /\ idx' = NextIdx(earlier[k].at)
    /\ earlier' = [earlier EXCEPT ![k].pc = "poll", ![k].at = 0]
    /\ UNCHANGED <<returned, llm, rtc, prepvars, bundle, batch_size, mainpc, args,
                   whisper_chunks, next_chunk, recon, res_frame_queue, conspc,
                   emitted, tmp_dir, timeouts, apivars>>

Earlier == \E k \in 1..Len(earlier) :
               EarlierBreak(k) \/ EarlierFrame(k) \/ EarlierStore(k)

SessionNext == Next \/ ReturnToCaller \/ Earlier

\* an avatar made from the longest clip, the face found in every frame
SessionInit ==
    /\ Init
    /\ Len(bundle.frame_list_cycle) = 2 * MaxSrcFrames
    /\ \A i \in 1..Len(bundle.coord_list_cycle) :
           bundle.coord_list_cycle[i] # coord_placeholder

SessionSpec == SessionInit /\ [][SessionNext]_vars

\* ------------------------------------------------- the streaming API
\* the embedding chunks a caller can pass (two distinguishable contents)
ChunkIds == {1, 2}

\* a whisper_chunks argument: a 2-D tensor (one chunk) or a 3-D batch
Tensors ==
    {[ndim |-> 2, data |-> <<c>>] : c \in ChunkIds}
        \cup {[ndim |-> 3, data |-> cs] : cs \in SeqsUpTo(ChunkIds, MaxBatch)}

\* a res_frame argument
ResFrames ==
    {Patch(c, bundle.input_latent_list_cycle[l], k) :
        c \in ChunkIds, l \in 1..Len(bundle.input_latent_list_cycle), k \in Kinds}

\* a caller invokes generate_frames
GenerateFramesCall ==
    /\ mainpc = "idle"
    /\ api = NoCall
    /\ unet_calls < MaxUnetCalls
    /\ \E w \in Tensors, s \in 0..MaxIdx, bsz \in 1..MaxBatch :
         \E kinds \in [1..Len(w.data) -> Kinds] :
            LET r == generate_frames(w, s, bsz, kinds)
            IN /\ api' = [op |-> "generate_frames", w |-> w, start_idx |-> s,
                          batch_size |-> bsz, kinds |-> kinds,
                          raised |-> r.raised, unet |-> r.unet, ret |-> r.ret,
                          calls_before |-> unet_calls]
               /\ unet_calls' = unet_calls + r.unet
    /\ UNCHANGED <<extvars, prepvars, bundle, batch_size, pipevars>>

\* a caller invokes res2combined
Res2CombinedCall ==
    /\ mainpc = "idle"
    /\ api = NoCall
    /\ \E res_frame \in ResFrames, i \in 0..MaxIdx :
         LET r == res2combined(res_frame, i)
         IN /\ api' = [op |-> "res2combined", res_frame |-> res_frame,
                       idx |-> i, raised |-> r.raised, image |-> r.image,
                       ref |-> OriFrameSlot(i), modified |-> FALSE]
            /\ bundle' = IF r.image.blended
                         THEN WriteInPlace(bundle, OriFrameSlot(i))
                         ELSE bundle
    /\ UNCHANGED <<extvars, prepvars, batch_size, pipevars, unet_calls>>

\* a caller invokes generate_idle_frame
GenerateIdleFrameCall ==
    /\ mainpc = "idle"
    /\ api = NoCall
    /\ \E i \in 0..MaxIdx :
         LET r == generate_idle_frame(i)
         IN /\ api' = [op |-> "generate_idle_frame", idx |-> i,
                       frame |-> r.frame, calls_before |-> unet_calls,
                       ref |-> r.slot, modified |-> FALSE]
            /\ unet_calls' = unet_calls + r.unet
    /\ UNCHANGED <<extvars, prepvars, bundle, batch_size, pipevars>>

\* a whisper_chunk argument of generate_frame: one chunk, 2-D or 3-D
OneChunk == {w \in Tensors : Len(w.data) = 1}

\* a caller invokes generate_frame
GenerateFrameCall ==
    /\ mainpc = "idle"
    /\ api = NoCall
    /\ unet_calls < MaxUnetCalls
    /\ \E w \in OneChunk, i \in 0..MaxIdx, kind \in Kinds :
         LET r == generate_frame(w, i, kind)
         IN /\ api' = [op |-> "generate_frame", w |-> w, idx |-> i,
                       kind |-> kind, raised |-> r.raised, unet |-> r.unet,
                       res_frame |-> r.res_frame, image |-> r.image,
                       ref |-> OriFrameSlot(i), modified |-> FALSE,
                       calls_before |-> unet_calls]
            /\ bundle' = IF r.image.blended
                         THEN WriteInPlace(bundle, OriFrameSlot(i))
                         ELSE bundle
            /\ unet_calls' = unet_calls + r.unet
    /\ UNCHANGED <<extvars, prepvars, batch_size, pipevars>>

\* the caller has taken the result of its call
ApiReturn ==
    /\ api # NoCall
    /\ api' = NoCall
    /\ UNCHANGED <<extvars, prepvars, bundle, batch_size, pipevars, unet_calls>>

ApiNext ==
    \/ GenerateFramesCall \/ GenerateFrameCall \/ Res2CombinedCall
    \/ GenerateIdleFrameCall \/ ApiReturn

ApiSpec == Init /\ [][ApiNext]_vars

\* the caller of res2combined, generate_frame or generate_idle_frame writes
\* into the frame it was handed
CallerModifies ==
    /\ api.op \in {"res2combined", "generate_frame", "generate_idle_frame"}
    /\ ~api.modified
    /\ api' = [api EXCEPT !.modified = TRUE]
    /\ bundle' = WriteInPlace(bundle, api.ref)
    /\ UNCHANGED <<extvars, prepvars, batch_size, pipevars, unet_calls>>

\* callers that take frames and write into them
CallerNext ==
    \/ Res2CombinedCall \/ GenerateFrameCall \/ GenerateIdleFrameCall
    \/ CallerModifies \/ ApiReturn

CallerSpec == Init /\ [][CallerNext]_vars

\* streaming calls, then an utterance through inference()
AllNext == ApiNext \/ Next

AllSpec == Init /\ [][AllNext]_vars


\* ------------------------------------------- construction and init()
\* no init() is under way
AtRest == run.pc \in {"none", "done", "crashed", "failed"}

\* the state of the objects and the disk before the first construction
PrepInit ==
    /\ Offstage
    /\ disk = EmptyDisk
    /\ run = NoRun
    /\ prev = Summary(NoRun, NoBundle)
    /\ bundle = NoBundle
    /\ batch_size = 1
    /\ mainpc = "idle"
    /\ args = [skip_save_images |-> FALSE, out_vid_name |-> FALSE]
    /\ whisper_chunks = <<>>
    /\ next_chunk = 0
    /\ recon = <<>>
    /\ res_frame_queue = <<>>
    /\ idx = 0
    /\ conspc = "none"
    /\ emitted = <<>>
    /\ tmp_dir = EmptyTmp
    /\ timeouts = 0
    /\ api = NoCall
    /\ unet_calls = 0

nonprep == <<extvars, batch_size, pipevars, apivars>>

\* MuseAvatarV15(...): a new object is constructed and init() starts
Construct ==
    /\ AtRest
    /\ run.n < MaxInits
    /\ \E vp \in VideoPaths, bs \in BboxShifts, force \in BOOLEAN :
        run' = [NoRun EXCEPT !.n = run.n + 1,
                             !.params = [video_path |-> vp, bbox_shift |-> bs,
                                         force_preparation |-> force],
                             !.again = run.n > 0 /\ run.params =
                                 [video_path |-> vp, bbox_shift |-> bs,
                                  force_preparation |-> force],
                             !.pc = "check"]
    /\ prev' = Summary(run, bundle)
    /\ bundle' = NoBundle
    /\ UNCHANGED <<disk, nonprep>>

\* init(), step 1: the required files are checked and the stored bbox_shift
\* is compared
InitCheck ==
    /\ run.pc = "check"
    /\ IF CheckRaises(run.params, disk)
       THEN run' = [run EXCEPT !.pc = "failed"]
       ELSE run' = [run EXCEPT !.pc = "decided",
                               !.need = NeedPreparation(run.params, disk)]
    /\ UNCHANGED <<disk, prev, bundle, nonprep>>

\* the directory is not removed first
InitClean_NoRmtree ==
    /\ run.pc = "decided"
    /\ run.need
    /\ disk' = [disk EXCEPT !.dir = TRUE]
    /\ run' = [run EXCEPT !.pc = "prep", !.step = 1, !.deleted = disk.dir,
                          !.prepared = TRUE]
    /\ UNCHANGED <<prev, bundle, nonprep>>

\* init(), step 3 with need_preparation: shutil.rmtree and osmakedirs
InitClean ==
    /\ run.pc = "decided"
    /\ run.need
    /\ disk' = [EmptyDisk EXCEPT !.dir = TRUE]
    /\ run' = [run EXCEPT !.pc = "prep", !.step = 1, !.deleted = disk.dir,
                          !.prepared = TRUE]
    /\ UNCHANGED <<prev, bundle, nonprep>>

AtStep(kind) ==
    /\ run.pc = "prep"
    /\ run.step \in 1..Len(PrepSteps)
    /\ PrepSteps[run.step].kind = kind

\* the step after this one; after the last, init() returns
Advance(r) ==
    IF r.step = Len(PrepSteps) THEN [r EXCEPT !.pc = "done", !.step = 0]
    ELSE [r EXCEPT !.step = r.step + 1]

\* prepare_material: open(path, "w") creates the file, empty
PrepOpen ==
    /\ AtStep("open")
    /\ LET a == PrepSteps[run.step].file
       IN disk' = [disk EXCEPT !.st[a] = "partial", !.by[a] = run.n]
    /\ run' = Advance(run)
    /\ UNCHANGED <<prev, bundle, nonprep>>

\* prepare_material: json.dump / pickle.dump / torch.save writes the file
\* to its end
PrepWrite ==
    /\ AtStep("write")
    /\ LET a == PrepSteps[run.step].file
       IN disk' = IF a = "info"
                  THEN [disk EXCEPT !.st[a] = "complete",
                                    !.info = AvatarInfo(run.params)]
                  ELSE [disk EXCEPT !.st[a] = "complete",
                                    !.data[FieldOf(a)] = bundle[FieldOf(a)]]
    /\ run' = Advance(run)
    /\ UNCHANGED <<prev, bundle, nonprep>>

\* prepare_material, step 2: the frames of the source are put into full_imgs
PrepExtract ==
    /\ AtStep("extract")
    /\ \E n \in 1..MaxSrcFrames : run' = [Advance(run) EXCEPT !.frames = n]
    /\ disk' = [disk EXCEPT !.imgs = @ \cup {run.n}]
    /\ UNCHANGED <<prev, bundle, nonprep>>

\* prepare_material, steps 3 to 5: detection, latents, the three cycles
PrepBuild ==
    /\ AtStep("build")
    /\ \E c \in [1..run.frames -> DetBoxes] :
        bundle' = [prepare_material(c, SourceFrames(run.frames))
                     EXCEPT !.mask_list_cycle = <<>>,
                            !.mask_coords_list_cycle = <<>>]
    /\ run' = [Advance(run) EXCEPT !.frames = 0]
    /\ UNCHANGED <<disk, prev, nonprep>>

\* prepare_material, step 6: a mask and a crop box for every cycle frame
PrepMasks ==
    /\ AtStep("masks")
    /\ LET frames == bundle.frame_list_cycle
           coords == bundle.coord_list_cycle
       IN bundle' =
            [bundle EXCEPT
               !.mask_list_cycle =
                    [i \in 1..Len(frames) |-> Mask(frames[i], coords[i])],
               !.mask_coords_list_cycle =
                    [i \in 1..Len(frames) |-> CropBox(coords[i])]]
    /\ run' = Advance(run)
    /\ UNCHANGED <<disk, prev, nonprep>>

\* the loading branch, saving frames.pkl again
InitLoad_Touch ==
    /\ run.pc = "decided"
    /\ ~run.need
    /\ bundle' = disk.data
    /\ disk' = [disk EXCEPT !.by["frames"] = run.n]
    /\ run' = [run EXCEPT !.pc = "done", !.loaded = TRUE]
    /\ UNCHANGED <<prev, nonprep>>

\* init(), step 3 without need_preparation: the five lists are loaded;
\* loading a file that was not written to its end raises
InitLoad ==
    /\ run.pc = "decided"
    /\ ~run.need
    /\ IF \A a \in Artifacts \ {"info"} : disk.st[a] = "complete"
       THEN /\ bundle' = disk.data
            /\ run' = [run EXCEPT !.pc = "done", !.loaded = TRUE]
       ELSE /\ bundle' = bundle
            /\ run' = [run EXCEPT !.pc = "failed", !.loaded = TRUE]
    /\ UNCHANGED <<disk, prev, nonprep>>

\* init() is interrupted (an I/O or detection failure, the process killed)
Crash ==
    /\ run.pc \in {"decided", "prep"}
    /\ run' = [run EXCEPT !.pc = "crashed", !.step = 0, !.frames = 0]
    /\ bundle' = NoBundle
    /\ UNCHANGED <<disk, prev, nonprep>>

\* a complete directory without the files of S
Without(d, S) ==
    [d EXCEPT
       !.st = [a \in Artifacts |-> IF a \in S THEN "absent" ELSE @[a]],
       !.by = [a \in Artifacts |-> IF a \in S THEN 0 ELSE @[a]],
       !.info = IF "info" \in S THEN NoInfo ELSE @,
       !.data = [f \in DOMAIN NoBundle |->
                   IF \E a \in S \ {"info"} : FieldOf(a) = f
                   THEN <<>> ELSE @[f]]]

\* between two runs, some of the required files, or the whole directory,
\* are removed from a complete bundle (the process of the last run is over)
EnvRemove ==
    /\ AtRest
    /\ run.n < MaxInits
    /\ Complete(disk)
    /\ \/ \E S \in SUBSET Artifacts : S # {} /\ disk' = Without(disk, S)
       \/ disk' = EmptyDisk
    /\ run' = [NoRun EXCEPT !.n = run.n]
    /\ prev' = Summary(NoRun, NoBundle)
    /\ bundle' = NoBundle
    /\ UNCHANGED nonprep

PrepNext ==
    \/ Construct \/ InitCheck \/ InitClean \/ InitLoad
    \/ PrepOpen \/ PrepWrite \/ PrepExtract \/ PrepBuild \/ PrepMasks
    \/ Crash \/ EnvRemove

PrepSpec == PrepInit /\ [][PrepNext]_vars

\* ------------------------------------------------------ the LLM handler
\* the avatar is not in use
NoAvatar ==
    /\ earlier = <<>>
    /\ returned = 0
    /\ disk = EmptyDisk
    /\ run = NoRun
    /\ prev = Summary(NoRun, NoBundle)
    /\ bundle = NoBundle
    /\ batch_size = 1
    /\ mainpc = "idle"
    /\ args = [skip_save_images |-> FALSE, out_vid_name |-> FALSE]
    /\ whisper_chunks = <<>>
    /\ next_chunk = 0
    /\ recon = <<>>
    /\ res_frame_queue = <<>>
    /\ idx = 0
    /\ conspc = "none"
    /\ emitted = <<>>
    /\ tmp_dir = EmptyTmp
    /\ timeouts = 0
    /\ api = NoCall
    /\ unet_calls = 0

avatarvars == <<sessvars, prepvars, bundle, batch_size, pipevars, apivars>>

\* Python's None
None == "None"

\* text is a sequence of tokens: a piece of plain text, the opening "<|"
\* and the closing "|>" of a tag
Tokens == {"a", "<|", "|>"}

\* get_main_data() of an input without text (None)
NoText == <<None>>

\* the main data of one HUMAN_TEXT input: None, the empty text or a token
Fragments == {NoText, <<>>} \cup {<<t>> : t \in Tokens}

\* "context.input_texts += text" when text is not None
Concat(buffer, text) == IF text = NoText THEN buffer ELSE buffer \o text

\* the position of the first "|>" of t after position i, 0 if there is none
RECURSIVE Closing(_, _)
Closing(t, i) ==
    IF i >= Len(t) THEN 0
    ELSE IF t[i + 1] = "|>" THEN i + 1 ELSE Closing(t, i + 1)

\* re.sub(r"<\|.*?\|>", "", chat_text): from left to right, every "<|" with
\* a "|>" after it is removed together with the shortest text up to a "|>"
RECURSIVE Strip(_)
Strip(chat_text) ==
    IF chat_text = <<>> THEN <<>>
    ELSE IF Head(chat_text) = "<|" /\ Closing(chat_text, 1) > 0
         THEN Strip(SubSeq(chat_text, Closing(chat_text, 1) + 1, Len(chat_text)))
         ELSE <<Head(chat_text)>> \o Strip(Tail(chat_text))

\* context.session_id, the speech_id of an input that carries none
SessionId == "session"

\* the speech_id meta of an input
SpeechIds == {None, "s1"}

\* "speech_id = inputs.data.get_meta("speech_id"); if (speech_id is None):
\* speech_id = context.session_id"
SpeechOf(meta) == IF meta = None THEN SessionId ELSE meta

\* the conversation ids Dify hands out; an event without the key gives None
ConversationIds == {None, "c1", "c2"}

\* the request carries no conversation id
ConversationOf_Empty(conversation_id) == ""

\* "conversation_id": context.conversation_id or ""
ConversationOf(conversation_id) ==
    IF conversation_id = None THEN "" ELSE conversation_id

\* what requests.post does: it raises a RequestException, or returns a
\* response with status 200 or with another status
Posts == {"RequestException", "200", "500"}

\* one line of response.iter_lines(): an empty keep-alive line, a line that
\* is not JSON, a JSON value that is not an event of the two kinds, a
\* "message" event (with an answer or with an empty one), a "message_end"
\* event (with a conversation_id or without)
Lines ==
    {[kind |-> k, answer |-> "", conversation_id |-> None] :
        k \in {"empty", "malformed", "other"}}
    \cup {[kind |-> "message", answer |-> a, conversation_id |-> None] :
             a \in {"", "x"}}
    \cup {[kind |-> "message_end", answer |-> "", conversation_id |-> c] :
             c \in ConversationIds}

\* a yielded DataBundle: main data and the metas avatar_text_end, speech_id
Output(text, end, speech_id) ==
    [text |-> text, avatar_text_end |-> end, speech_id |-> speech_id]

NoRequest == [query |-> <<>>, conversation_id |-> None]

NoInput == [type |-> "none", text |-> NoText, human_text_end |-> FALSE,
            speech_id |-> None]

\* LLMContext.__init__ and create_context: the context of a new session
\* (input_texts, current_image, conversation_id, enable_video_input), no
\* handle() running; with it what the session has done so far: the number of
\* handle() calls, the input of the latest call, what became of its chat
\* request (none if it posted none) and the request, the bundles it has
\* yielded, the lines it
\* has read, the fragments of the utterance in progress (closed when its
\* human_text_end has arrived), and the latest message_end event processed
LLMContext(enable_video_input) ==
    [pc |-> "idle",
     input_texts |-> <<>>,
     current_image |-> FALSE,
     conversation_id |-> None,
     enable_video_input |-> enable_video_input,
     speech_id |-> None,
     calls |-> 0,
     input |-> NoInput,
     post |-> "none",
     request |-> NoRequest,
     out |-> <<>>,
     nlines |-> 0,
     utterance |-> <<>>,
     closed |-> FALSE,
     last_end |-> None]

\* handle() on a CAMERA_VIDEO input: with enable_video_input the image is
\* kept and the call returns; without it the call returns at the final else
HandleCameraVideo ==
    /\ llm.pc = "idle"
    /\ llm.calls < MaxHandles
    /\ llm' = [llm EXCEPT
                 !.calls = @ + 1,
                 !.input = [NoInput EXCEPT !.type = "CAMERA_VIDEO"],
                 !.current_image = IF llm.enable_video_input THEN TRUE ELSE @,
                 !.post = "none",
                 !.out = <<>>,
                 !.nlines = 0]
    /\ UNCHANGED <<avatarvars, rtc>>

\* the request is made without waiting for the end of the utterance
Sends_EveryFragment(text_end, chat_text) == Len(chat_text) >= 1

\* handle(): neither "if not text_end: return" nor
\* "if len(chat_text) < 1: return" is taken
Sends(text_end, chat_text) == text_end /\ Len(chat_text) >= 1

\* the chat request of handle(): the stripped text and the conversation id
RequestData(chat_text, conversation_id) ==
    [query |-> chat_text, conversation_id |-> ConversationOf(conversation_id)]

\* handle() on a HUMAN_TEXT input, up to the first line of the response: the
\* text is appended to input_texts; with human_text_end and a non-empty
\* stripped text the chat request is posted (the upload of current_image
\* before it only fills the files of the request); a RequestException ends
\* the call, any response clears current_image and input_texts
HandleHumanText ==
    /\ llm.pc = "idle"
    /\ llm.calls < MaxHandles
    /\ \E text \in Fragments, meta \in SpeechIds, text_end \in BOOLEAN,
          post \in Posts :
        LET input_texts == Concat(llm.input_texts, text)
            chat_text   == Strip(input_texts)
            received ==
                [llm EXCEPT
                   !.calls = @ + 1,
                   !.input = [type |-> "HUMAN_TEXT", text |-> text,
                              human_text_end |-> text_end, speech_id |-> meta],
                   !.speech_id = SpeechOf(meta),
                   !.input_texts = input_texts,
                   !.post = "none",
                   !.out = <<>>,
                   !.nlines = 0,
                   !.utterance = Concat(IF llm.closed THEN <<>> ELSE @, text),
                   !.closed = text_end]
            posted ==
                [received EXCEPT
                   !.post = post,
                   !.request = RequestData(chat_text, llm.conversation_id)]
        IN llm' = IF ~Sends(text_end, chat_text) THEN received
                  ELSE IF post = "RequestException" THEN posted
                  ELSE [posted EXCEPT !.current_image = FALSE,
                                      !.input_texts = <<>>,
                                      !.pc = "streaming"]
    /\ UNCHANGED <<avatarvars, rtc>>

\* the line ends the stream
IterLine_Stops ==
    /\ llm.pc = "streaming"
    /\ llm.nlines < MaxLines
    /\ \E line \in Lines :
        llm' = IF line.kind \in {"malformed", "other"}
               THEN [llm EXCEPT !.nlines = @ + 1, !.pc = "idle"]
               ELSE [llm EXCEPT
                 !.nlines = @ + 1,
                 !.out = IF line.kind = "message" /\ line.answer # ""
                         THEN Append(@, Output(line.answer, FALSE, llm.speech_id))
                         ELSE @,
                 !.conversation_id = IF line.kind = "message_end"
                                     THEN line.conversation_id ELSE @,
                 !.last_end = IF line.kind = "message_end"
                              THEN line.conversation_id ELSE @]
    /\ UNCHANGED <<avatarvars, rtc>>

\* handle(), one round of "for line in response.iter_lines()": an empty
\* line is passed over, a "message" event with an answer is yielded as a
\* bundle, a "message_end" event sets the conversation id, and a line that
\* cannot be parsed or processed is logged and skipped
IterLine ==
    /\ llm.pc = "streaming"
    /\ llm.nlines < MaxLines
    /\ \E line \in Lines :
        llm' = [llm EXCEPT
                 !.nlines = @ + 1,
                 !.out = IF line.kind = "message" /\ line.answer # ""
                         THEN Append(@, Output(line.answer, FALSE, llm.speech_id))
                         ELSE @,
                 !.conversation_id = IF line.kind = "message_end"
                                     THEN line.conversation_id ELSE @,
                 !.last_end = IF line.kind = "message_end"
                              THEN line.conversation_id ELSE @]
    /\ UNCHANGED <<avatarvars, rtc>>

\* handle(): the stream is exhausted and the end bundle is yielded
EndOutput ==
    /\ llm.pc = "streaming"
    /\ llm' = [llm EXCEPT !.pc = "idle",
                          !.out = Append(@, Output("", TRUE, llm.speech_id))]
    /\ UNCHANGED <<avatarvars, rtc>>

\* the generator of a handle() call that got a response
Stream == IterLine \/ EndOutput

LlmNext == HandleCameraVideo \/ HandleHumanText \/ Stream

\* a new session, with or without video input
LlmInit ==
    /\ NoAvatar
    /\ rtc = NoRtc
    /\ \E enable_video_input \in BOOLEAN : llm = LLMContext(enable_video_input)

LlmSpec == LlmInit /\ [][LlmNext]_vars

\* the engine iterates the generator that handle() returns to its end
LlmFairSpec == LlmSpec /\ WF_vars(Stream)

\* ------------------------------------------------------ the RTC provider
\* an RTC configuration that is None
NoRtcConfig == [is_none |-> TRUE, turn_provider |-> None, urls |-> None]

\* the RTC configurations a caller can supply: a provider name (or none) and
\* TURN urls
RtcConfigs ==
    {[is_none |-> FALSE, turn_provider |-> p, urls |-> u] :
        p \in {None, "turn", "twilio"}, u \in {"turn:a", "turn:b"}}

\* the configs prepare_rtc_configuration can be called with: a
\* ServiceConfigData (whose rtc_config may be None), another BaseModel, a
\* Dict, or anything else (None, a string)
Configs ==
    {[type |-> "ServiceConfigData", data |-> d] :
        d \in RtcConfigs \cup {NoRtcConfig}}
    \cup {[type |-> t, data |-> d] : t \in {"BaseModel", "Dict"}, d \in RtcConfigs}
    \cup {[type |-> t, data |-> NoRtcConfig] : t \in {"NoneType", "str"}}

\* self.rtc_turn_providers: the names in the order of the dict
rtc_turn_providers == <<"twilio", "turn">>

\* no provider was called
NoProvider == [provider |-> None, urls |-> <<>>, username |-> "", credential |-> ""]

\* the settings are taken from the supplied configuration
RtcConfig_FromConfig(rtc_config) ==
    [urls |-> <<rtc_config.urls>>, username |-> "admin", credential |-> "admin@123~"]

\* RtcConfig(urls=[...], username="admin", credential="admin@123~")
RtcConfig(rtc_config) ==
    [urls |-> <<"turn:120.224.27.114:3478", "turns:120.224.27.114:5349">>,
     username |-> "admin", credential |-> "admin@123~"]

\* prepare_rtc_configuration, lines 22-29: the RTC config of the input
RtcConfigOf(config) ==
    IF config.type \in {"ServiceConfigData", "BaseModel", "Dict"}
    THEN config.data ELSE NoRtcConfig

\* prepare_rtc_configuration(config): the call it makes to a provider's
\* prepare_rtc_configuration (NoProvider if it makes none) and what it
\* returns, entity being what the called provider returns
prepare_rtc_configuration(config, entity) ==
    LET rtc_config == RtcConfigOf(config)
        turn_provider_name == "turn"
        found == \E k \in 1..Len(rtc_turn_providers) :
                     rtc_turn_providers[k] = turn_provider_name
        \* lines 51-62: without a provider of that name the first provider
        \* of the dict is taken, with turn_provider_config None
        turn_provider == IF found THEN turn_provider_name
                         ELSE IF rtc_turn_providers # <<>>
                              THEN Head(rtc_turn_providers) ELSE None
        called == IF found
                  THEN [provider |-> turn_provider] @@ RtcConfig(rtc_config)
                  ELSE [NoProvider EXCEPT !.provider = turn_provider]
    IN IF rtc_config.is_none \/ turn_provider = None
       THEN [called |-> NoProvider, returns |-> None]
       ELSE [called |-> called, returns |-> entity]

\* what a provider's prepare_rtc_configuration returns
Entities == {None, "turn_entity"}

\* prepare_rtc_configuration is called with each of the two configs
PrepareRtcConfiguration ==
    /\ rtc.pc = "ready"
    /\ \E e1 \in Entities, e2 \in Entities :
        rtc' = [rtc EXCEPT
                  !.pc = "called",
                  !.result = <<prepare_rtc_configuration(rtc.config[1], e1),
                               prepare_rtc_configuration(rtc.config[2], e2)>>]
    /\ UNCHANGED <<avatarvars, llm>>

\* two configs, before either is passed to prepare_rtc_configuration
RtcInit ==
    /\ NoAvatar
    /\ llm = NoHandle
    /\ \E c1 \in Configs, c2 \in Configs :
        rtc = [pc |-> "ready", config |-> <<c1, c2>>, result |-> <<>>]

RtcSpec == RtcInit /\ [][PrepareRtcConfiguration]_vars

\* ================================================================ claims
V == Len(whisper_chunks)

EmittedIdx == {emitted[k].idx : k \in 1..Len(emitted)}

\* the patch that went into an emitted frame
PatchOf(e) == e.image.res.patch

\* the resize of the head of the queue fails at the consumer's cursor
HeadResizeFails ==
    LET bbox == At(bundle.coord_list_cycle, idx)
    IN ResizeRaises(Head(res_frame_queue), BoxW(bbox), BoxH(bbox))

\* C1: when the consumer has terminated on an utterance of V >= 1 chunks, it
\* has composited exactly V frames, one for each logical index 0..V-1.
C1_AllFramesComposited ==
    (conspc = "done" /\ V >= 1) =>
        /\ Len(emitted) = V
        /\ EmittedIdx = 0..(V - 1)

\* C2: the frames the consumer emits carry the logical indices 0, 1, 2, ...
\* in this order (frame k is emitted right after frame k-1), and a frame is
\* persisted only once it is emitted.
C2_EmittedInOrder ==
    /\ \A k \in 1..Len(emitted) : emitted[k].idx = k - 1
    /\ tmp_dir.files \subseteq EmittedIdx

C2_Witness ==
    /\ conspc = "running"
    /\ Len(emitted) >= 2
    /\ res_frame_queue # <<>>
    /\ 1 \in tmp_dir.files

\* C3: once the producer has enqueued every patch and waits in join(), the
\* consumer eventually terminates and inference reaches its end.
C3_DrainingLeadsToDone == (mainpc = "joining") ~> (mainpc = "done")

\* C4: a consumer round whose resize fails emits the untouched original
\* frame for the cursor's index and advances the cursor by one.
C4_ResizeFailureEmitsOriginal ==
    [][(ConsumerFrame /\ HeadResizeFails) =>
          /\ idx' = idx + 1
          /\ emitted' = Append(emitted,
                 [idx |-> idx,
                  image |-> Original(At(bundle.frame_list_cycle, idx))])]_vars

\* C5: the j-th patch the producer enqueued (chunk j+1 of the utterance) is
\* composited with the face box, frame, mask and crop box cached at physical
\* index j mod N.
C5_IndexPreserved ==
    \A k \in 1..Len(emitted) :
        LET e == emitted[k]
            j == PatchOf(e).chunk - 1
        IN e.image.blended =>
            /\ e.image.frame = At(bundle.frame_list_cycle, j)
            /\ e.image.bbox = At(bundle.coord_list_cycle, j)
            /\ e.image.mask = At(bundle.mask_list_cycle, j)
            /\ e.image.crop = At(bundle.mask_coords_list_cycle, j)

\* C6: res2combined on a patch that is all zero after the resize returns the
\* cached original frame at idx mod N, with nothing blended.
C6_ZeroPatchGivesOriginal ==
    (api.op = "res2combined"
        /\ LET bbox == At(bundle.coord_list_cycle, api.idx)
           IN /\ ~ResizeRaises(api.res_frame, BoxW(bbox), BoxH(bbox))
              /\ AllZero(Resize(api.res_frame, BoxW(bbox), BoxH(bbox))))
    => /\ ~api.raised
       /\ ~api.image.blended
       /\ api.image = Original(At(bundle.frame_list_cycle, api.idx))

C6_Witness ==
    /\ api.op = "res2combined"
    /\ api.res_frame.kind = "zero"
    /\ At(bundle.coord_list_cycle, api.idx) # coord_placeholder
    /\ api.idx >= Len(bundle.frame_list_cycle)
    /\ api.image.frame = 2

\* C7: when the resize raises inside res2combined, no exception reaches the
\* caller and the untouched original frame at idx mod N is returned.
C7_ResizeErrorGivesOriginal ==
    (api.op = "res2combined"
        /\ LET bbox == At(bundle.coord_list_cycle, api.idx)
           IN ResizeRaises(api.res_frame, BoxW(bbox), BoxH(bbox)))
    => /\ ~api.raised
       /\ ~api.image.blended
       /\ api.image = Original(At(bundle.frame_list_cycle, api.idx))

C7_Witness ==
    /\ api.op = "res2combined"
    /\ api.res_frame.kind = "bad"
    /\ At(bundle.coord_list_cycle, api.idx) # coord_placeholder
    /\ api.idx >= Len(bundle.frame_list_cycle)
    /\ ~api.raised

\* C8: a frame the consumer emits for an all-zero patch is the original
\* cached frame: an all-zero patch is never blended.
C8_ZeroPatchNeverBlended ==
    \A k \in 1..Len(emitted) :
        PatchOf(emitted[k]).kind = "zero" => ~emitted[k].image.blended

\* C9: generate_frames on B chunks with batch_size B returns B pairs with
\* the indices s, s+1, ..., s+B-1 in this order, the i-th patch made from
\* the i-th chunk and the latent at (s+i) mod N.
C9_GenerateFramesInOrder ==
    (api.op = "generate_frames" /\ Len(api.w.data) = api.batch_size) =>
        /\ ~api.raised
        /\ Len(api.ret) = api.batch_size
        /\ \A k \in 1..Len(api.ret) :
            /\ api.ret[k][2] = api.start_idx + k - 1
            /\ api.ret[k][1].chunk = api.w.data[k]
            /\ api.ret[k][1].latent =
                 At(bundle.input_latent_list_cycle, api.start_idx + k - 1)
            /\ api.ret[k][1].kind = api.kinds[k]

C9_Witness ==
    /\ api.op = "generate_frames"
    /\ ~api.raised
    /\ Len(api.ret) >= 2
    /\ api.w.data[1] # api.w.data[2]
    /\ api.start_idx + 1 = Len(bundle.input_latent_list_cycle)
    /\ api.ret[2][1].latent = bundle.input_latent_list_cycle[1]

\* C10: generate_frames on a number of chunks other than batch_size fails
\* before the reconstruction model is invoked and returns nothing.
C10_MismatchRejected ==
    (api.op = "generate_frames" /\ Len(api.w.data) # api.batch_size) =>
        /\ api.raised
        /\ api.unet = 0
        /\ api.ret = <<>>

C10_Witness ==
    /\ api.op = "generate_frames"
    /\ Len(api.w.data) > api.batch_size
    /\ api.raised
    /\ unet_calls = 1

\* C11: generate_idle_frame(k) returns the cached frame at physical index
\* k mod N and leaves the number of model invocations as it was.
C11_IdleFrameNoModel ==
    api.op = "generate_idle_frame" =>
        /\ api.frame = At(bundle.frame_list_cycle, api.idx)
        /\ unet_calls = api.calls_before

C11_Witness ==
    /\ api.op = "generate_idle_frame"
    /\ api.idx >= Len(bundle.frame_list_cycle)
    /\ api.frame = 2
    /\ unet_calls >= 1

\* ---------------------------------------------- claims on init() and
\* prepare_material

\* the files of the directory that are not there
Missing(d) == {a \in Artifacts : ~Exists(d, a)}

\* everything on disk was put there by run n
AllBy(d, n) ==
    /\ \A a \in Artifacts : Exists(d, a) => d.by[a] = n
    /\ d.imgs \subseteq {n}

\* run n has put nothing on disk
NothingBy(d, n) ==
    /\ \A a \in Artifacts : d.by[a] # n
    /\ n \notin d.imgs

\* C12: when init() finds a complete bundle whose stored bbox_shift is not
\* the constructor's, need_preparation is set; a run with need_preparation
\* never enters the loading branch, and when it is done it has gone through
\* prepare_material and the directory holds its own complete bundle.
C12_ShiftChangeRegenerates ==
    /\ (/\ run.pc = "decided"
        /\ Complete(disk)
        /\ disk.info.bbox_shift # run.params.bbox_shift) => run.need
    /\ run.need => ~run.loaded
    /\ (run.need /\ run.pc = "done") =>
            /\ run.prepared
            /\ Complete(disk)
            /\ AllBy(disk, run.n)
            /\ disk.info = AvatarInfo(run.params)

C12_Witness ==
    /\ run.pc = "decided"
    /\ Complete(disk)
    /\ disk.info.bbox_shift # run.params.bbox_shift
    /\ disk.info.video_path = run.params.video_path
    /\ ~run.params.force_preparation
    /\ run.need

\* C13: when init() finds a complete bundle whose stored video_path is not
\* the constructor's, need_preparation is set.
C13_VideoChangeRegenerates ==
    (/\ run.pc = "decided"
     /\ Complete(disk)
     /\ disk.info.video_path # run.params.video_path) => run.need

C15_LoadIdempotent ==
    /\ run.loaded => ~run.prepared /\ ~run.deleted /\ NothingBy(disk, run.n)
    /\ (run.loaded /\ run.pc = "done") => bundle = disk.data
    /\ (/\ prev.pc = "done" /\ prev.loaded
        /\ run.pc = "done" /\ run.loaded) => bundle = prev.bundle

C15_Witness ==
    /\ prev.pc = "done" /\ prev.loaded
    /\ run.pc = "done" /\ run.loaded
    /\ run.again
    /\ Len(bundle.frame_list_cycle) > 0
    /\ Complete(disk)

\* C16: with force_preparation, init() never fails on the stored metadata,
\* always sets need_preparation and never loads, whatever is on disk; when
\* it is done it has prepared and the directory holds its own bundle.
C16_ForceRegenerates ==
    (run.n > 0 /\ run.params.force_preparation) =>
        /\ run.pc # "failed"
        /\ run.pc # "check" => run.need
        /\ ~run.loaded
        /\ run.pc = "done" =>
                run.prepared /\ Complete(disk) /\ AllBy(disk, run.n)

C16_Witness ==
    /\ run.pc = "done"
    /\ run.params.force_preparation
    /\ run.again
    /\ prev.pc = "done"
    /\ run.deleted
    /\ run.prepared

\* C17: from the moment a regenerating run enters prepare_material, whatever
\* is in the directory was put there by that run; after a completed
\* regeneration all six files are that run's and hold what it prepared.
C17_NothingSurvives ==
    /\ run.prepared => AllBy(disk, run.n)
    /\ (run.prepared /\ run.pc = "done") =>
            /\ Complete(disk)
            /\ \A a \in Artifacts : disk.by[a] = run.n
            /\ disk.data = bundle
            /\ disk.info = AvatarInfo(run.params)

C17_Witness ==
    /\ run.pc = "done"
    /\ run.prepared
    /\ run.deleted
    /\ run.n = 2
    /\ prev.pc = "done"
    /\ disk.info.bbox_shift = 5

\* C18: after a run that was interrupted inside prepare_material, the next
\* run with the same parameters and force_preparation false sets
\* need_preparation.
C18_InterruptedNeverAccepted ==
    (/\ prev.pc = "crashed" /\ prev.prepared
     /\ run.again
     /\ ~run.params.force_preparation
     /\ run.pc = "decided") => run.need

\* C19: after a completed preparation the five cycle lists have one common
\* length, and it is even.
C19_CyclesSameEvenLength ==
    (run.pc = "done" /\ run.prepared) =>
        LET N == Len(bundle.frame_list_cycle)
        IN /\ N % 2 = 0
           /\ Len(bundle.coord_list_cycle) = N
           /\ Len(bundle.input_latent_list_cycle) = N
           /\ Len(bundle.mask_list_cycle) = N
           /\ Len(bundle.mask_coords_list_cycle) = N

\* a face box that is not empty and lies within the frame
WellFormedBox(b) ==
    /\ 0 <= b[1] /\ b[1] < b[3]
    /\ 0 <= b[2] /\ b[2] < b[4]
    /\ b[4] <= FrameHeight

\* C20: after a completed preparation no stored face box is the placeholder
\* (0, 0, 0, 0), and every stored face box is non-empty and within the frame.
C20_NoPlaceholderStored ==
    (run.pc = "done" /\ run.prepared) =>
        \A i \in 1..Len(bundle.coord_list_cycle) :
            /\ bundle.coord_list_cycle[i] # coord_placeholder
            /\ WellFormedBox(bundle.coord_list_cycle[i])

\* ---------------------------------------------- claims on the cycle
\* element i and element n-1-i of a list of length n are the same
Mirror(lst) == \A i \in 1..Len(lst) : lst[i] = lst[Len(lst) + 1 - i]

\* going from the last index to the next one repeats the element
WrapRepeats(lst) == lst # <<>> => At(lst, Len(lst) - 1) = At(lst, Len(lst))

\* C21: the frames, the face boxes and the latents of the bundle each read
\* the same backwards as forwards (element i and element n-1-i of a list of
\* length n are the same source element), so the wrap from the last index
\* to index 0 repeats the same source frame.
C21_MirrorProperty ==
    /\ Mirror(bundle.frame_list_cycle) /\ WrapRepeats(bundle.frame_list_cycle)
    /\ Mirror(bundle.coord_list_cycle) /\ WrapRepeats(bundle.coord_list_cycle)
    /\ Mirror(bundle.input_latent_list_cycle)
    /\ WrapRepeats(bundle.input_latent_list_cycle)

C21_Witness ==
    /\ run.pc = "done"
    /\ run.prepared
    /\ Len(bundle.frame_list_cycle) = 4
    /\ bundle.frame_list_cycle[1] # bundle.frame_list_cycle[2]
    /\ Len(bundle.input_latent_list_cycle) = 4
    /\ bundle.input_latent_list_cycle[1] # bundle.input_latent_list_cycle[2]

\* logical index i and logical index i + n resolve to the same physical
\* index of a list of length n, and it lies in [0, n)
Periodic(lst, i) ==
    /\ PhysicalIndex(i, Len(lst)) \in 0..(Len(lst) - 1)
    /\ PhysicalIndex(i + Len(lst), Len(lst)) = PhysicalIndex(i, Len(lst))

\* C22: every lookup of the streaming API resolves logical index i and
\* logical index i + n, n the length of the list looked up, to the same
\* physical index in [0, n): the latent of generate_frames and
\* generate_frame, the face box, frame, mask and crop box of res2combined
\* and the frame of generate_idle_frame; a call one period later gives the
\* same patches and the same frame.
C22_CyclePeriodicity ==
    LET latents == bundle.input_latent_list_cycle
        frames  == bundle.frame_list_cycle
    IN /\ (api.op = "generate_frames" /\ ~api.raised) =>
            LET later == generate_frames(api.w, api.start_idx + Len(latents),
                                         api.batch_size, api.kinds)
            IN \A k \in 1..Len(api.ret) :
                  /\ Periodic(latents, api.ret[k][2])
                  /\ later.ret[k][1] = api.ret[k][1]
       /\ api.op = "generate_frame" =>
            /\ Periodic(latents, api.idx)
            /\ At(latents, api.idx + Len(latents)) = api.res_frame.latent
            /\ res2combined(api.res_frame, api.idx + Len(frames)).image
                    = api.image
       /\ api.op = "res2combined" =>
            /\ Periodic(bundle.coord_list_cycle, api.idx)
            /\ Periodic(frames, api.idx)
            /\ Periodic(bundle.mask_list_cycle, api.idx)
            /\ Periodic(bundle.mask_coords_list_cycle, api.idx)
            /\ res2combined(api.res_frame, api.idx + Len(frames)).image
                    = api.image
       /\ api.op = "generate_idle_frame" =>
            /\ Periodic(frames, api.idx)
            /\ generate_idle_frame(api.idx + Len(frames)).frame = api.frame

C22_Witness ==
    /\ api.op = "generate_frames"
    /\ ~api.raised
    /\ Len(bundle.input_latent_list_cycle) = 4
    /\ api.start_idx = 5
    /\ api.ret[1][1].latent = bundle.input_latent_list_cycle[2]
    /\ bundle.input_latent_list_cycle[2] # bundle.input_latent_list_cycle[1]

\* ---------------------------------------------- claims on ownership
\* C23: no step of generate_frames, generate_frame, res2combined,
\* generate_idle_frame or inference/process_frames changes the five cycle
\* lists: they keep the contents they had when init() finished.
C23_BundleReadOnly == [][bundle' = bundle]_vars

C23_Witness ==
    /\ mainpc = "done"
    /\ Len(whisper_chunks) = 3
    /\ batch_size = 2
    /\ Len(emitted) = 2
    /\ emitted[2].image.blended
    /\ unet_calls = 4

\* C24: whatever callers do to the frames they were handed, every later
\* call returns the frame as init() left it: res2combined, generate_frame
\* and generate_idle_frame hand out arrays that are not in the cache.
C24_ReturnedFramesNotShared ==
    /\ api.op = "generate_idle_frame" =>
            api.frame > 0 /\ api.ref = Fresh
    /\ api.op \in {"res2combined", "generate_frame"} =>
            api.image.frame > 0 /\ api.ref = Fresh

\* ---------------------------------------------- claims on the pipeline
\* C25: the number of patches put on the queue and not yet taken never
\* exceeds a capacity that is the same for every utterance length; in
\* particular it stays below the longest utterance length MaxV.
C25_QueueBounded == Len(res_frame_queue) < MaxV

\* C26: once a failure of the models has left inference() while the
\* producer loop was running, the consumer thread eventually terminates.
C26_FailureStopsConsumer == (mainpc = "failed") ~> (conspc = "done")

\* C27: when inference() has returned, the tmp directory it made no longer
\* exists, whatever skip_save_images and out_vid_name are.
C27_TmpDirReleased == mainpc = "done" => ~tmp_dir.exists

\* ---------------------------------------------- claims on generation
\* the latent list and the frame list resolve logical index i to the same
\* physical index, and the latent there was made from the frame there
SamePosition(i) ==
    /\ PhysicalIndex(i, Len(bundle.input_latent_list_cycle))
            = PhysicalIndex(i, Len(bundle.frame_list_cycle))
    /\ At(bundle.input_latent_list_cycle, i).frame
            = At(bundle.frame_list_cycle, i)

\* C28: for every logical index, generate_frames and generate_frame fetch
\* the latent at the physical index at which res2combined fetches the face
\* box, the frame, the mask and the crop box.
C28_SamePhysicalPosition ==
    /\ (api.op = "generate_frames" /\ ~api.raised) =>
            \A k \in 1..Len(api.ret) : SamePosition(api.ret[k][2])
    /\ api.op = "generate_frame" => SamePosition(api.idx)

\* C29: a call of generate_frames that succeeds invokes the reconstruction
\* model exactly once, whatever the batch size; a call that is rejected
\* invokes it not at all.
C29_OneModelCallPerBatch ==
    api.op = "generate_frames" =>
        IF api.raised
        THEN api.unet = 0 /\ unet_calls = api.calls_before
        ELSE /\ api.unet = 1
             /\ unet_calls = api.calls_before + 1
             /\ Len(api.ret) = api.batch_size

C29_Witness ==
    /\ api.op = "generate_frames"
    /\ ~api.raised
    /\ api.batch_size = 2
    /\ Len(api.ret) = 2
    /\ api.calls_before = 1
    /\ unet_calls = 2

\* C30: generate_frame(chunk, idx) takes the latent at idx mod N and invokes
\* the model once, as generate_frames(chunk, idx, 1) does; the patch it
\* composites is the only patch of that call, and the frame it returns is
\* res2combined of that patch at idx.
C30_SingleFrameIsBatchOfOne ==
    api.op = "generate_frame" =>
        LET g == generate_frames(api.w, api.idx, 1, <<api.kind>>)
        IN /\ ~g.raised
           /\ Len(g.ret) = 1
           /\ g.unet = api.unet
           /\ unet_calls = api.calls_before + 1
           /\ g.ret[1][2] = api.idx
           /\ g.ret[1][1].latent = At(bundle.input_latent_list_cycle, api.idx)
           /\ g.ret[1][1] = api.res_frame
           /\ api.image = res2combined(g.ret[1][1], g.ret[1][2]).image
           /\ api.raised = res2combined(g.ret[1][1], g.ret[1][2]).raised

C30_Witness ==
    /\ api.op = "generate_frame"
    /\ api.w.ndim = 2
    /\ Len(bundle.input_latent_list_cycle) = 4
    /\ api.idx = 5
    /\ api.res_frame.latent = bundle.input_latent_list_cycle[2]
    /\ bundle.input_latent_list_cycle[2] # bundle.input_latent_list_cycle[1]
    /\ api.image.blended

\* --------------------------------- claims on the cursor and on the threads
\* the step is the reset of inference(): "self.idx = 0" on the way from the
\* call to process_thread.start()
IsReset == mainpc = "idle" /\ mainpc' = "producing"

\* C31: the cursor self.idx never decreases within a session and changes
\* only by one, on a frame of the consumer; it is set to 0 only by the
\* start of an inference() call, before that call's consumer thread runs.
C31_CursorAdvancesByOne ==
    [][idx' # idx =>
          \/ idx' = idx + 1 /\ ~IsReset
          \/ idx' = 0 /\ IsReset /\ conspc # "running" /\ conspc' = "running"]_vars

\* C32: over sequential inference() calls on one avatar, the reset of the
\* cursor by the main thread never happens while a consumer thread, of this
\* or of an earlier utterance, is still running.
C32_ResetWithoutLiveConsumer ==
    [][IsReset => conspc # "running" /\ earlier = <<>>]_vars

\* C33: stage 3 of inference() (the two ffmpeg commands, the removal of the
\* temp video and of the tmp directory) runs only when the consumer thread
\* of the call has ended and been joined, and the consumer takes no step
\* after it.
C33_PostProcessAfterJoin ==
    [][(\/ mainpc = "joining" /\ mainpc' = "done"
        \/ tmp_dir.exists /\ ~tmp_dir'.exists
        \/ mainpc = "done")
       => conspc = "done" /\ conspc' = "done"]_vars

C33_Witness ==
    /\ mainpc = "done"
    /\ args.out_vid_name /\ ~args.skip_save_images
    /\ ~tmp_dir.exists
    /\ Len(emitted) >= 2

\* ------------------------------------------- claims on the LLM handler
\* the step is a call of handle() (up to its return or its first line)
IsHandle == llm'.calls # llm.calls

\* the latest handle() call of this context posted a chat request
Posted(context) == context.post # "none"

\* C34: handle() posts no chat request and yields nothing for a
\* CAMERA_VIDEO input or for a HUMAN_TEXT input without human_text_end; the
\* fragments are appended to input_texts in the order they arrive; a request
\* is posted exactly on a HUMAN_TEXT input with human_text_end whose buffered
\* text is non-empty once the <|...|> tags are stripped, with that text; no
\* other step posts a request.
C34_BuffersUntilTextEnd ==
    [][LET input    == llm'.input
           buffered == Concat(llm.input_texts, input.text)
       IN IF IsHandle
          THEN /\ (input.type = "CAMERA_VIDEO" \/ ~input.human_text_end)
                    => ~Posted(llm') /\ llm'.out = <<>> /\ llm'.pc = "idle"
               /\ ~Posted(llm') => llm'.input_texts = buffered
               /\ Posted(llm') <=> /\ input.type = "HUMAN_TEXT"
                                   /\ input.human_text_end
                                   /\ Strip(buffered) # <<>>
               /\ Posted(llm') => llm'.request.query = Strip(buffered)
          ELSE llm'.post = llm.post /\ llm'.request = llm.request]_vars

C34_Witness ==
    /\ Posted(llm)
    /\ llm.input.human_text_end
    /\ Len(llm.utterance) >= 3
    /\ llm.request.query # <<>>
    /\ llm.request.query # llm.utterance

\* the bundles of a call's response so far: text bundles only, each with a
\* text, avatar_text_end false and the speech id of the call
TextBundles(out, speech_id) ==
    \A k \in 1..Len(out) :
        /\ ~out[k].avatar_text_end
        /\ out[k].text # ""
        /\ out[k].speech_id = speech_id

EndYielded(speech_id) ==
    /\ llm.out # <<>>
    /\ llm.out[Len(llm.out)] = Output("", TRUE, speech_id)

\* C36: every completed human utterance (a HUMAN_TEXT input with
\* human_text_end and a non-empty stripped text, for which handle() posts
\* the chat request) eventually gets a bundle with avatar_text_end true for
\* its speech id, also when the request raises or returns an error status.
C36_EveryUtteranceGetsItsEnd ==
    \A speech_id \in {SpeechOf(meta) : meta \in SpeechIds} :
        (Posted(llm) /\ llm.speech_id = speech_id) ~> EndYielded(speech_id)

\* C37: the query of every chat request is the stripped concatenation of
\* the fragments of the current utterance only, those received after the
\* previous input with human_text_end.
C37_QueryIsCurrentUtterance ==
    [][IsHandle /\ Posted(llm')
          => llm'.request.query = Strip(llm'.utterance)]_vars

\* C38: every chat request carries the conversation_id of the latest
\* message_end event processed in the session (the empty string before any,
\* or when the event had none), and the context's conversation_id changes
\* only in the processing of a message_end line.
C38_ConversationContinues ==
    [][/\ IsHandle /\ Posted(llm')
           => llm'.request.conversation_id
                 = IF llm.last_end = None THEN "" ELSE llm.last_end
       /\ llm'.conversation_id # llm.conversation_id
           => /\ llm.pc = "streaming"
              /\ llm'.nlines = llm.nlines + 1
              /\ llm'.conversation_id = llm'.last_end]_vars

C38_Witness ==
    /\ Posted(llm)
    /\ llm.pc = "streaming"
    /\ llm.request.conversation_id = "c1"
    /\ llm.conversation_id = "c2"

\* ------------------------------------------ claims on the RTC provider
\* the config is of a supported type and its RTC config is not None
Supported(config) ==
    /\ config.type \in {"ServiceConfigData", "BaseModel", "Dict"}
    /\ ~config.data.is_none

\* C39: the provider prepare_rtc_configuration calls and the settings it
\* hands over (urls, username, credential) do not depend on the content of
\* the config: two supported configs with an RTC config lead to the same
\* call of a provider, and an unsupported config or one without RTC config
\* returns None without a call.
C39_ProviderCallIgnoresConfig ==
    rtc.pc = "called" =>
        /\ \A i \in 1..2 :
              IF Supported(rtc.config[i])
              THEN rtc.result[i].called # NoProvider
              ELSE rtc.result[i] = [called |-> NoProvider, returns |-> None]
        /\ Supported(rtc.config[1]) /\ Supported(rtc.config[2])
              => rtc.result[1].called = rtc.result[2].called

C39_Witness ==
    /\ rtc.pc = "called"
    /\ Supported(rtc.config[1]) /\ Supported(rtc.config[2])
    /\ rtc.config[1].type # rtc.config[2].type
    /\ rtc.config[1].data.urls # rtc.config[2].data.urls
    /\ rtc.config[1].data.turn_provider = "twilio"
    /\ rtc.result[1].called.provider = "turn"

====
